---- MODULE Spec2Model ----
(***************************************************************************)
(* Model of the specification normalization layer of API-Visualizer        *)
(* (src/src/utils/openApiParser.ts): the document loader (JSON first, then *)
(* YAML), the dialect gate and the conversion of a parsed document into    *)
(* the unified ApiSpec model (Spec), the recursion of parseSchemaRef call  *)
(* by call (ConvertSpec), and the store useApiStore with the handlers of   *)
(* the components that load documents into it (AppSpec).                   *)
(*                                                                         *)
(* JavaScript values are tagged records: [t |-> "undefined"],              *)
(* [t |-> "null"], [t |-> "string", str |-> s], [t |-> "number", num |-> n], *)
(* [t |-> "boolean", bool |-> b], [t |-> "array", elems |-> <<...>>] and    *)
(* [t |-> "object", entries |-> << <<key, value>>, ... >>] with the entries *)
(* in own-property order.  Objects the code builds with a fixed set of keys *)
(* (Endpoint, Parameter, SchemaRef, ...) are TLA+ records; the key `$ref`  *)
(* is the record field `ref`.                                              *)
(***************************************************************************)
EXTENDS Integers, Sequences, FiniteSets, TLC

VARIABLES
  input, pc, result, parserCalls,   \* one call of parseOpenApiSpec
  root, stack, calls, converted,    \* one conversion by parseSchemaRef, call by call
  store,                            \* the state of useApiStore
  loads,                            \* the loads started so far, each with its phase
  resolved,                         \* per load, the ApiSpec its promise fulfilled with
  showUrlInput,                     \* Header: const [showUrlInput, setShowUrlInput]
  tryItOut,                         \* whether the TryItOut component is mounted
  requests                          \* the Try-It-Out requests awaiting their response

parserVars == <<input, pc, result, parserCalls>>
convertVars == <<root, stack, calls, converted>>
appVars == <<store, loads, resolved, showUrlInput, tryItOut, requests>>
vars == <<parserVars, convertVars, appVars>>

(***************************************************************************)
(* Bounds of the explored input space                                      *)
(***************************************************************************)
MaxTags == 2
MaxParams == 1
MaxPaths == 2
MaxMethods == 2
MaxDepth == 1
MaxNesting == 2
MaxLoads == 2

(***************************************************************************)
(* JavaScript values                                                       *)
(***************************************************************************)
Undef == [t |-> "undefined"]
Null == [t |-> "null"]
Str(s) == [t |-> "string", str |-> s]
Num(n) == [t |-> "number", num |-> n]
Bool(b) == [t |-> "boolean", bool |-> b]
Arr(s) == [t |-> "array", elems |-> s]
Obj(es) == [t |-> "object", entries |-> es]

\* ToBoolean: the truthiness test behind `!x`, `x || y` and `x ? a : b`
Truthy(x) ==
  CASE x.t \in {"undefined", "null"} -> FALSE
    [] x.t = "boolean" -> x.bool
    [] x.t = "string" -> x.str # ""
    [] x.t = "number" -> x.num # 0
    [] OTHER -> TRUE

\* x || y
Or(x, y) == IF Truthy(x) THEN x ELSE y

\* reading a property of undefined or null throws a TypeError
Nullish(x) == x.t \in {"undefined", "null"}

HasKey(o, k) == o.t = "object" /\ \E i \in 1..Len(o.entries) : o.entries[i][1] = k

\* o.k (o[k]) for a data property k of a parsed document node
Get(o, k) ==
  IF HasKey(o, k)
  THEN o.entries[CHOOSE i \in 1..Len(o.entries) : o.entries[i][1] = k][2]
  ELSE Undef

\* Object.entries(o), for the mappings, arrays and non-string scalars of the
\* explored documents: an array has its indices as keys
Entries(o) ==
  CASE o.t = "object" -> o.entries
    [] o.t = "array" -> [i \in 1..Len(o.elems) |-> <<ToString(i - 1), o.elems[i]>>]
    [] OTHER -> <<>>

\* [...a] and a.map(...), for the arrays of the explored documents
Elems(a) == IF a.t = "array" THEN a.elems ELSE <<>>

RECURSIVE Flatten(_)
Flatten(ss) == IF ss = <<>> THEN <<>> ELSE Head(ss) \o Flatten(Tail(ss))

(***************************************************************************)
(* Own-property order of a JavaScript object: keys that are array indices  *)
(* come first, in ascending numeric order, then the other string keys in   *)
(* the order in which they were created.  JSON.parse and yaml.load build   *)
(* plain objects, so a mapping of the text reaches the code in this order. *)
(***************************************************************************)
ArrayIndex(k) ==
  CASE k = "200" -> 200
    [] k = "404" -> 404
    [] k = "500" -> 500
    [] OTHER -> -1

RECURSIVE SortIndexEntries(_)
SortIndexEntries(es) ==
  IF es = <<>> THEN <<>>
  ELSE LET m == CHOOSE i \in 1..Len(es) :
                  \A j \in 1..Len(es) : ArrayIndex(es[i][1]) <= ArrayIndex(es[j][1])
       IN <<es[m]>> \o SortIndexEntries(SubSeq(es, 1, m - 1) \o SubSeq(es, m + 1, Len(es)))

IsIndexEntry(e) == ArrayIndex(e[1]) >= 0
IsNamedEntry(e) == ArrayIndex(e[1]) < 0

OwnPropertyOrder(es) ==
  SortIndexEntries(SelectSeq(es, IsIndexEntry)) \o SelectSeq(es, IsNamedEntry)

\* the JavaScript value a parser builds from the tree the text denotes
RECURSIVE JSValue(_)
JSValue(tree) ==
  CASE tree.t = "object" ->
         Obj(OwnPropertyOrder([i \in 1..Len(tree.entries) |->
                                 <<tree.entries[i][1], JSValue(tree.entries[i][2])>>]))
    [] tree.t = "array" -> Arr([i \in 1..Len(tree.elems) |-> JSValue(tree.elems[i])])
    [] OTHER -> tree

(***************************************************************************)
(* Schema conversion                                                       *)
(***************************************************************************)
defaultSchemaRefUntyped == [type |-> Undef]

parseSchemaRefShallow(schema) ==
  IF ~Truthy(schema) THEN [type |-> Str("object")]
  ELSE
    LET mapRefs(list) ==
          IF Nullish(list) THEN Undef
          ELSE Arr([i \in 1..Len(Elems(list)) |-> [type |-> Str("object")]])
        props == Entries(Get(schema, "properties"))
    IN [type |-> Get(schema, "type"),
        ref |-> Get(schema, "$ref"),
        format |-> Get(schema, "format"),
        description |-> Get(schema, "description"),
        enum |-> Get(schema, "enum"),
        items |-> IF Truthy(Get(schema, "items")) THEN [type |-> Str("object")] ELSE Undef,
        properties |-> IF Truthy(Get(schema, "properties"))
                       THEN Obj([i \in 1..Len(props) |->
                                   <<props[i][1], [type |-> Str("object")]>>])
                       ELSE Undef,
        required |-> Get(schema, "required"),
        example |-> Get(schema, "example"),
        nullable |-> Get(schema, "nullable"),
        oneOf |-> mapRefs(Get(schema, "oneOf")),
        anyOf |-> mapRefs(Get(schema, "anyOf")),
        allOf |-> mapRefs(Get(schema, "allOf"))]

\* if (!schema) return { type: 'object' }
defaultSchemaRef == [type |-> Str("object")]

\* function parseSchemaRef(schema?: OpenAPISchema): SchemaRef, the value it
\* returns when no `?.map` raises a TypeError (ThrowTypeError traces that case)
RECURSIVE parseSchemaRef(_)
parseSchemaRef(schema) ==
  IF ~Truthy(schema) THEN defaultSchemaRef
  ELSE
    LET mapRefs(list) ==
          IF Nullish(list) THEN Undef
          ELSE Arr([i \in 1..Len(Elems(list)) |-> parseSchemaRef(Elems(list)[i])])
        props == Entries(Get(schema, "properties"))
    IN [type |-> Get(schema, "type"),
        ref |-> Get(schema, "$ref"),
        format |-> Get(schema, "format"),
        description |-> Get(schema, "description"),
        enum |-> Get(schema, "enum"),
        items |-> IF Truthy(Get(schema, "items"))
                  THEN parseSchemaRef(Get(schema, "items"))
                  ELSE Undef,
        properties |-> IF Truthy(Get(schema, "properties"))
                       THEN Obj([i \in 1..Len(props) |->
                                   <<props[i][1], parseSchemaRef(props[i][2])>>])
                       ELSE Undef,
        required |-> Get(schema, "required"),
        example |-> Get(schema, "example"),
        nullable |-> Get(schema, "nullable"),
        oneOf |-> mapRefs(Get(schema, "oneOf")),
        anyOf |-> mapRefs(Get(schema, "anyOf")),
        allOf |-> mapRefs(Get(schema, "allOf"))]

\* function parseSchema(name: string, schema: OpenAPISchema): Schema
parseSchema(name, schema) ==
  LET props == Entries(Get(schema, "properties"))
  IN [name |-> Str(name),
      type |-> Or(Get(schema, "type"), Str("object")),
      description |-> Get(schema, "description"),
      properties |-> IF Truthy(Get(schema, "properties"))
                     THEN Obj([i \in 1..Len(props) |->
                                 <<props[i][1], parseSchemaRef(props[i][2])>>])
                     ELSE Undef,
      items |-> IF Truthy(Get(schema, "items"))
                THEN parseSchemaRef(Get(schema, "items"))
                ELSE Undef,
      required |-> Get(schema, "required"),
      enum |-> Get(schema, "enum"),
      format |-> Get(schema, "format"),
      example |-> Get(schema, "example")]

(***************************************************************************)
(* Parameters, request bodies, responses                                   *)
(***************************************************************************)
parseParameterAsDeclared(param) ==
  [name |-> Get(param, "name"),
   in |-> Get(param, "in"),
   description |-> Get(param, "description"),
   required |-> Or(Get(param, "required"), Bool(FALSE)),
   schema |-> parseSchemaRef(Get(param, "schema")),
   example |-> Get(param, "example")]

\* function parseParameter(param: OpenAPIParameter): Parameter
parseParameter(param) ==
  [name |-> Get(param, "name"),
   in |-> Get(param, "in"),
   description |-> Get(param, "description"),
   required |-> Or(Get(param, "required"), Bool(Get(param, "in") = Str("path"))),
   schema |-> parseSchemaRef(Get(param, "schema")),
   example |-> Get(param, "example")]

\* the loop that fills `content` from Object.entries(x.content || {})
parseContent(content) ==
  LET es == Entries(Or(content, Obj(<<>>)))
  IN [i \in 1..Len(es) |->
        <<es[i][1], [schema |-> parseSchemaRef(Get(es[i][2], "schema")),
                     example |-> Get(es[i][2], "example")]>>]

\* function parseRequestBody(body?): RequestBody | undefined
parseRequestBody(body) ==
  IF ~Truthy(body) THEN Undef
  ELSE [description |-> Get(body, "description"),
        required |-> Or(Get(body, "required"), Bool(FALSE)),
        content |-> Obj(parseContent(Get(body, "content")))]

\* function parseResponses(responses?): Response[]
parseResponses(responses) ==
  IF ~Truthy(responses) THEN <<>>
  ELSE LET es == Entries(responses)
       IN [i \in 1..Len(es) |->
             LET content == parseContent(Get(es[i][2], "content"))
             IN [statusCode |-> Str(es[i][1]),
                 description |-> Get(es[i][2], "description"),
                 content |-> IF Len(content) > 0 THEN Obj(content) ELSE Undef]]

(***************************************************************************)
(* Endpoints                                                               *)
(***************************************************************************)
\* const methods: HttpMethod[]
methods == <<"get", "post", "put", "patch", "delete", "options", "head">>

endpointIdPathOnly(method, path) == "-" \o path

\* id: `${method}-${path}`
endpointId(method, path) == method \o "-" \o path

\* operation.security?.map(s => Object.keys(s)[0])
parseSecurity(security) ==
  IF Nullish(security) THEN Undef
  ELSE Arr([i \in 1..Len(Elems(security)) |->
              LET keys == Entries(Elems(security)[i])
              IN IF Len(keys) > 0 THEN Str(keys[1][1]) ELSE Undef])

endpointTagsNoDefault(operation) == Or(Get(operation, "tags"), Arr(<<>>))

\* tags: operation.tags || ['default']
endpointTags(operation) == Or(Get(operation, "tags"), Arr(<<Str("default")>>))

allParamsOverridden(pathParams, operation) ==
  LET opParams == Elems(Or(Get(operation, "parameters"), Arr(<<>>)))
      overridden(p) == \E k \in 1..Len(opParams) :
                         /\ Get(opParams[k], "name") = Get(p, "name")
                         /\ Get(opParams[k], "in") = Get(p, "in")
      kept(p) == ~overridden(p)
  IN SelectSeq(Elems(pathParams), kept) \o opParams

\* const allParams = [...pathParams, ...(operation.parameters || [])]
allParams(pathParams, operation) ==
  Elems(pathParams) \o Elems(Or(Get(operation, "parameters"), Arr(<<>>)))

\* the object pushed onto `endpoints` for one (path, method) pair
makeEndpoint(path, pathItem, method) ==
  LET operation == Get(pathItem, method)
      pathParams == Or(Get(pathItem, "parameters"), Arr(<<>>))
      params == allParams(pathParams, operation)
  IN [id |-> endpointId(method, path),
      path |-> path,
      method |-> method,
      summary |-> Get(operation, "summary"),
      description |-> Get(operation, "description"),
      tags |-> endpointTags(operation),
      parameters |-> [i \in 1..Len(params) |-> parseParameter(params[i])],
      requestBody |-> parseRequestBody(Get(operation, "requestBody")),
      responses |-> parseResponses(Get(operation, "responses")),
      security |-> parseSecurity(Get(operation, "security")),
      deprecated |-> Get(operation, "deprecated")]

\* the inner loop `for (const method of methods)`: skips a falsy operation
pathEndpoints(path, pathItem) ==
  LET present(m) == Truthy(Get(pathItem, m))
      ms == SelectSeq(methods, present)
  IN [i \in 1..Len(ms) |-> makeEndpoint(path, pathItem, ms[i])]

\* the outer loop `for (const [path, pathItem] of Object.entries(spec.paths || {}))`
parseEndpoints(spec) ==
  LET es == Entries(Or(Get(spec, "paths"), Obj(<<>>)))
  IN Flatten([i \in 1..Len(es) |-> pathEndpoints(es[i][1], es[i][2])])

(***************************************************************************)
(* Schemas, security schemes, tags                                         *)
(***************************************************************************)
\* spec.components?.schemas and spec.components?.securitySchemes
components(spec, k) ==
  IF Nullish(Get(spec, "components")) THEN Undef ELSE Get(Get(spec, "components"), k)

parseSchemasByDialect(spec) ==
  LET es == Entries(Or(IF Truthy(Get(spec, "swagger"))
                       THEN Get(spec, "definitions")
                       ELSE components(spec, "schemas"), Obj(<<>>)))
  IN [i \in 1..Len(es) |-> parseSchema(es[i][1], es[i][2])]

\* for (const [name, schema] of Object.entries(spec.components?.schemas || {}))
parseSchemas(spec) ==
  LET es == Entries(Or(components(spec, "schemas"), Obj(<<>>)))
  IN [i \in 1..Len(es) |-> parseSchema(es[i][1], es[i][2])]

parseSecuritySchemes(spec) ==
  LET es == Entries(Or(components(spec, "securitySchemes"), Obj(<<>>)))
  IN [i \in 1..Len(es) |->
        [name |-> Str(es[i][1]),
         type |-> Get(es[i][2], "type"),
         in |-> Get(es[i][2], "in"),
         scheme |-> Get(es[i][2], "scheme"),
         bearerFormat |-> Get(es[i][2], "bearerFormat"),
         description |-> Get(es[i][2], "description")]]

\* new Set<string>() filled in iteration order: first occurrences, in order
RECURSIVE Distinct(_)
Distinct(s) ==
  IF s = <<>> THEN <<>>
  ELSE LET front == Distinct(SubSeq(s, 1, Len(s) - 1))
           last == s[Len(s)]
       IN IF \E i \in 1..Len(front) : front[i] = last THEN front ELSE Append(front, last)

extractTagsRepeated(endpoints) ==
  LET tagSet == Flatten([i \in 1..Len(endpoints) |-> Elems(endpoints[i].tags)])
  IN Arr([i \in 1..Len(tagSet) |-> Obj(<< <<"name", tagSet[i]>> >>)])

\* function extractTags(endpoints: Endpoint[])
extractTags(endpoints) ==
  LET tagSet == Distinct(Flatten([i \in 1..Len(endpoints) |-> Elems(endpoints[i].tags)]))
  IN Arr([i \in 1..Len(tagSet) |-> Obj(<< <<"name", tagSet[i]>> >>)])

\* tags: spec.tags || extractTags(endpoints)
specTags(spec, endpoints) == Or(Get(spec, "tags"), extractTags(endpoints))

(***************************************************************************)
(* Document loader and normalizer                                          *)
(***************************************************************************)
ParseErrorMessage == "Failed to parse spec: Invalid JSON or YAML"
ValidationErrorMessage == "Invalid OpenAPI specification: missing openapi or swagger version"
TypeErrorMessage(base, key) ==
  "Cannot read properties of " \o base.t \o " (reading '" \o key \o "')"

\* JSON.parse(input): strict, throws a SyntaxError on text that is not JSON
JSONParse(text) ==
  IF text.kind = "json" THEN [ok |-> TRUE, value |-> JSValue(text.tree)]
  ELSE [ok |-> FALSE]

\* yaml.load(input): accepts YAML, of which JSON text is a subset
YAMLLoad(text) ==
  IF text.kind \in {"json", "yaml"} THEN [ok |-> TRUE, value |-> JSValue(text.tree)]
  ELSE [ok |-> FALSE]

loadDocumentYamlFirst(text) ==
  IF YAMLLoad(text).ok
  THEN [ok |-> TRUE, value |-> YAMLLoad(text).value, calls |-> <<"yaml.load">>]
  ELSE IF JSONParse(text).ok
       THEN [ok |-> TRUE, value |-> JSONParse(text).value,
             calls |-> <<"yaml.load", "JSON.parse">>]
       ELSE [ok |-> FALSE, calls |-> <<"yaml.load", "JSON.parse">>]

\* the try/catch ladder for string input; `calls` lists the parsers invoked
loadDocument(text) ==
  IF JSONParse(text).ok
  THEN [ok |-> TRUE, value |-> JSONParse(text).value, calls |-> <<"JSON.parse">>]
  ELSE IF YAMLLoad(text).ok
       THEN [ok |-> TRUE, value |-> YAMLLoad(text).value,
             calls |-> <<"JSON.parse", "yaml.load">>]
       ELSE [ok |-> FALSE, calls |-> <<"JSON.parse", "yaml.load">>]

\* the dialect gate: !spec.openapi && !spec.swagger
dialectMissing(spec) == ~Truthy(Get(spec, "openapi")) /\ ~Truthy(Get(spec, "swagger"))

\* the object returned by parseOpenApiSpec
makeApiSpec(spec) ==
  LET endpoints == parseEndpoints(spec)
  IN [title |-> Get(Get(spec, "info"), "title"),
      version |-> Get(Get(spec, "info"), "version"),
      description |-> Get(Get(spec, "info"), "description"),
      servers |-> Get(spec, "servers"),
      endpoints |-> endpoints,
      schemas |-> parseSchemas(spec),
      tags |-> specTags(spec, endpoints),
      securitySchemes |-> parseSecuritySchemes(spec)]

\* parseOpenApiSpec from the dialect gate on: the settled promise
normalize(spec) ==
  IF Nullish(spec)
  THEN [status |-> "rejected", reason |-> TypeErrorMessage(spec, "openapi")]
  ELSE IF dialectMissing(spec)
  THEN [status |-> "rejected", reason |-> ValidationErrorMessage]
  ELSE IF Nullish(Get(spec, "info"))
  THEN [status |-> "rejected", reason |-> TypeErrorMessage(Get(spec, "info"), "title")]
  ELSE [status |-> "fulfilled", value |-> makeApiSpec(spec)]

\* export async function parseOpenApiSpec(input: string | object)
parseOpenApiSpec(inp) ==
  IF inp.kind = "object" THEN normalize(JSValue(inp.tree))
  ELSE IF loadDocument(inp).ok THEN normalize(loadDocument(inp).value)
  ELSE [status |-> "rejected", reason |-> ParseErrorMessage]

(***************************************************************************)
(* The explored documents.  A tree is written with every optional key; a   *)
(* key whose value is Absent is not part of the document.                  *)
(***************************************************************************)
Absent == [t |-> "absent"]
IsPresent(e) == e[2].t # "absent"
Mk(es) == Obj(SelectSeq(es, IsPresent))

SeqsUpTo(S, n) == UNION {[1..k -> S] : k \in 0..n}
DistinctSeqsUpTo(S, n) ==
  {q \in SeqsUpTo(S, n) : \A i, j \in 1..Len(q) : i # j => q[i] # q[j]}

PetRef == "#/components/schemas/Pet"

LeafSchemas ==
  {Mk(<< <<"type", Str("string")>> >>),
   Mk(<< <<"$ref", Str(PetRef)>> >>),
   Mk(<< <<"$ref", Str(PetRef)>>, <<"type", Str("object")>> >>),
   Mk(<<>>)}

RECURSIVE SchemaNodes(_)
SchemaNodes(d) ==
  IF d = 0 THEN LeafSchemas
  ELSE LeafSchemas
       \cup {Mk(<< <<"type", Str("array")>>, <<"items", n>> >>) : n \in SchemaNodes(d - 1)}
       \cup {Mk(<< <<"type", Str("object")>>,
                   <<"properties", Mk(<< <<"name", n>> >>)>>,
                   <<"required", Arr(<<Str("name")>>)>> >>) : n \in SchemaNodes(d - 1)}
       \cup {Mk(<< <<"oneOf", Arr(<<n, Mk(<< <<"type", Str("integer")>> >>)>>)>> >>) :
               n \in SchemaNodes(d - 1)}
       \cup {Mk(<< <<"$ref", Str(PetRef)>>, <<"items", n>>,
                   <<"properties", Mk(<< <<"name", n>> >>)>> >>) : n \in SchemaNodes(d - 1)}

\* parameters
ParamSchemas ==
  {Absent, Mk(<< <<"type", Str("string")>> >>),
   Mk(<< <<"$ref", Str(PetRef)>>, <<"type", Str("object")>> >>)}

Params ==
  {Mk(<< <<"name", Str("id")>>, <<"in", Str(loc)>>, <<"required", req>>, <<"schema", sch>> >>) :
     loc \in {"path", "query"}, req \in {Absent, Bool(TRUE), Bool(FALSE)}, sch \in ParamSchemas}

ParamLists == {Absent} \cup {Arr(q) : q \in SeqsUpTo(Params, MaxParams)}

PathLevelParams ==
  {Mk(<< <<"name", Str("id")>>, <<"in", Str("path")>>, <<"required", Bool(FALSE)>> >>),
   Mk(<< <<"name", Str("id")>>, <<"in", Str("query")>> >>)}

PathLevelParamLists == {Absent} \cup {Arr(q) : q \in SeqsUpTo(PathLevelParams, MaxParams)}

\* tags
TagNames == {"pets", "store"}
OperationTags == {Absent} \cup {Arr(q) : q \in SeqsUpTo({Str(n) : n \in TagNames}, MaxTags)}

TopLevelTags ==
  {Absent, Arr(<<>>),
   Arr(<<Mk(<< <<"name", Str("store")>>, <<"description", Str("Orders")>> >>)>>),
   Arr(<<Mk(<< <<"name", Str("admin")>> >>), Mk(<< <<"name", Str("pets")>> >>)>>)}

\* media types, request bodies, responses, security requirements
MediaTypes ==
  {Mk(<< <<"application/json", Mk(<< <<"schema", sch>> >>)>> >>) :
     sch \in {Absent} \cup SchemaNodes(MaxDepth)}
  \cup {Mk(<< <<"application/json", Mk(<< <<"example", Str("{}")>> >>)>>,
              <<"text/plain", Mk(<< <<"schema", Mk(<< <<"type", Str("string")>> >>)>> >>)>> >>)}

RequestBodies ==
  {Absent, Mk(<< <<"required", Bool(TRUE)>> >>)}
  \cup {Mk(<< <<"description", Str("payload")>>, <<"content", c>> >>) : c \in MediaTypes}

OkResponse == Mk(<< <<"description", Str("ok")>> >>)

ResponseMaps ==
  {Absent, Mk(<<>>),
   Mk(<< <<"200", OkResponse>> >>),
   Mk(<< <<"404", Mk(<< <<"description", Str("missing")>> >>)>>, <<"200", OkResponse>> >>),
   Mk(<< <<"default", Mk(<< <<"description", Str("error")>> >>)>>,
         <<"500", Mk(<<>>)>>, <<"200", OkResponse>> >>)}
  \cup {Mk(<< <<"200", Mk(<< <<"description", Str("ok")>>, <<"content", c>> >>)>> >>) :
          c \in MediaTypes}

SecurityLists ==
  {Absent, Arr(<<>>),
   Arr(<<Mk(<< <<"apiKey", Arr(<<>>)>> >>)>>),
   Arr(<<Mk(<< <<"oauth", Arr(<<Str("read")>>)>> >>), Mk(<< <<"apiKey", Arr(<<>>)>> >>)>>),
   Arr(<<Mk(<<>>)>>)}

\* operations: each optional field varied around the plain operation
Operation(tags, parameters, requestBody, responses, security) ==
  Mk(<< <<"summary", Str("List")>>, <<"tags", tags>>, <<"parameters", parameters>>,
        <<"requestBody", requestBody>>, <<"responses", responses>>,
        <<"security", security>> >>)

PlainOperation == Operation(Absent, Absent, Absent, Mk(<< <<"200", OkResponse>> >>), Absent)
BareOperation ==
  Operation(Absent,
            Arr(<<Mk(<< <<"name", Str("q")>>, <<"in", Str("query")>> >>)>>),
            Mk(<< <<"content", Mk(<< <<"application/json", Mk(<<>>)>> >>)>> >>),
            Mk(<< <<"200", Mk(<< <<"description", Str("ok")>>,
                                 <<"content", Mk(<< <<"application/json",
                                                      Mk(<< <<"example", Str("{}")>> >>)>> >>)>> >>)>> >>),
            Absent)
TaggedOperation == Operation(Arr(<<Str("pets")>>), Absent, Absent, Absent, Absent)

Operations ==
  {Operation(tg, Absent, Absent, Mk(<< <<"200", OkResponse>> >>), Absent) : tg \in OperationTags}
  \cup {Operation(Absent, Absent, b, Absent, Absent) : b \in RequestBodies}
  \cup {Operation(Absent, Absent, Absent, r, Absent) : r \in ResponseMaps}
  \cup {Operation(Arr(<<Str("pets")>>), Absent, Absent, Absent, sec) : sec \in SecurityLists}
  \cup {BareOperation}

\* path items
OtherKeys ==
  << <<"parameters", Arr(<<>>)>>, <<"x-internal", PlainOperation>>,
     <<"trace", PlainOperation>>, <<"summary", Str("Pets")>> >>

OperationItems == {Mk(<< <<"get", op>> >>) : op \in Operations}

ParameterItems ==
  {Mk(<< <<"parameters", pp>>,
         <<"post", Operation(Absent, ps, Absent, Absent, Absent)>> >>) :
     pp \in PathLevelParamLists, ps \in ParamLists}

MethodSet == {methods[i] : i \in 1..Len(methods)}

MethodItems ==
  {Mk([i \in 1..Len(ms) |-> <<ms[i], PlainOperation>>] \o extra) :
     ms \in DistinctSeqsUpTo(MethodSet, MaxMethods), extra \in {<<>>, OtherKeys}}
  \cup {Mk(<< <<"get", Null>>, <<"put", TaggedOperation>> >>)}

SmallItems ==
  {Mk(<< <<"get", PlainOperation>> >>),
   Mk(<< <<"post", TaggedOperation>>, <<"get", PlainOperation>> >>),
   Mk(<< <<"delete", Operation(Arr(<<Str("store"), Str("pets")>>), Absent, Absent, Absent, Absent)>> >>)}

\* path mappings
PathNames == {"/pets", "/pets/{id}", "/a-b"}

SinglePathMaps ==
  {Mk(<< <<"/pets/{id}", item>> >>) :
     item \in OperationItems \cup ParameterItems \cup MethodItems}

MultiPathMaps ==
  UNION {{Mk([i \in 1..Len(ps) |-> <<ps[i], f[i]>>]) : f \in [1..Len(ps) -> SmallItems]} :
           ps \in DistinctSeqsUpTo(PathNames, MaxPaths)}

PathMaps == {Absent} \cup SinglePathMaps \cup MultiPathMaps

SmallPathMaps ==
  {Absent,
   Mk(<< <<"/pets", Mk(<< <<"post", TaggedOperation>>, <<"get", PlainOperation>> >>)>> >>)}

\* root documents
Dialects ==
  {<<>>,
   << <<"openapi", Str("3.0.0")>> >>,
   << <<"swagger", Str("2.0")>> >>,
   << <<"swagger", Str("2.0")>>, <<"openapi", Str("3.0.0")>> >>,
   << <<"openapi", Str("")>> >>}

Infos ==
  {Absent,
   Mk(<< <<"title", Str("T")>>, <<"version", Str("1.0")>> >>),
   Mk(<< <<"title", Str("T")>>, <<"version", Str("1.0")>>, <<"description", Str("D")>> >>)}

PlainInfo == Mk(<< <<"title", Str("T")>>, <<"version", Str("1.0")>> >>)

ApiKeyScheme ==
  Mk(<< <<"type", Str("apiKey")>>, <<"in", Str("header")>>, <<"name", Str("X-Key")>> >>)

SchemaMaps ==
  {Absent, Mk(<<>>)}
  \cup {Mk(<< <<"Pet", n>> >>) : n \in SchemaNodes(MaxDepth)}
  \cup {Mk(<< <<"Pet", Mk(<< <<"type", Str("object")>> >>)>>,
              <<"200", Mk(<< <<"type", Str("string")>>, <<"enum", Arr(<<Str("a")>>)>> >>)>>,
              <<"Order", Mk(<< <<"$ref", Str(PetRef)>> >>)>> >>),
        Mk(<< <<"Upload", Mk(<< <<"type", Str("file")>> >>)>>,
              <<"Name", Mk(<< <<"type", Arr(<<Str("string"), Str("null")>>)>> >>)>>,
              <<"Flag", Mk(<< <<"type", Str("boolean")>> >>)>> >>)}

ComponentsSet ==
  {Absent}
  \cup {Mk(<< <<"schemas", sm>>, <<"securitySchemes", ss>> >>) :
          sm \in SchemaMaps, ss \in {Absent, Mk(<< <<"apiKey", ApiKeyScheme>> >>)}}

Swagger2Extras ==
  << <<"definitions", Mk(<< <<"Pet", Mk(<< <<"type", Str("object")>> >>)>> >>)>>,
     <<"securityDefinitions", Mk(<< <<"apiKey", ApiKeyScheme>> >>)>> >>

Doc(dialect, info, paths, comps, tags, extra) ==
  Mk(dialect \o << <<"info", info>>, <<"paths", paths>>, <<"components", comps>>,
                   <<"tags", tags>> >> \o extra)

OpenApi == << <<"openapi", Str("3.0.0")>> >>
Swagger == << <<"swagger", Str("2.0")>> >>

PathDocuments ==
  {Doc(OpenApi, PlainInfo, p, Absent, tg, <<>>) : p \in PathMaps, tg \in TopLevelTags}

RootDocuments ==
  {Doc(d, i, p, Absent, tg, <<>>) :
     d \in Dialects, i \in Infos, p \in SmallPathMaps, tg \in {Absent, Arr(<<>>)}}

ComponentDocuments ==
  {Doc(d, PlainInfo, Absent, c, Absent, x) :
     d \in {OpenApi, Swagger}, c \in ComponentsSet, x \in {<<>>, Swagger2Extras}}

Scalars == {Null, Str("hello"), Num(42), Bool(TRUE), Arr(<<>>)}

\* inputs of parseOpenApiSpec: a text (what it denotes and in which syntax) or an object
Inputs ==
  {[kind |-> "json", tree |-> d] :
     d \in PathDocuments \cup RootDocuments \cup ComponentDocuments \cup Scalars}
  \cup {[kind |-> "yaml", tree |-> d] : d \in RootDocuments \cup Scalars \cup {Undef}}
  \cup {[kind |-> "invalid", tree |-> Undef]}
  \cup {[kind |-> "object", tree |-> d] : d \in RootDocuments \cup {Arr(<<>>)}}

(***************************************************************************)
(* State machine: one call of parseOpenApiSpec on a drawn input            *)
(***************************************************************************)
Pending == [status |-> "pending"]

\* no conversion is traced
ConvertIdle ==
  /\ root = Undef
  /\ stack = <<>>
  /\ calls = 0
  /\ converted = Pending

\* create<ApiState>((set) => ({ spec: null, isLoading: false, ... }))
initialState ==
  [spec |-> Null,
   isLoading |-> FALSE,
   error |-> Null,
   selectedEndpoint |-> Null,
   selectedSchema |-> Null,
   searchQuery |-> "",
   expandedTags |-> <<>>,
   activeTab |-> "docs",
   lastResponse |-> Null,
   isRequestLoading |-> FALSE,
   isDarkMode |-> TRUE]

\* the application as mounted: nothing loaded, nothing in flight
AppIdle ==
  /\ store = initialState
  /\ loads = <<>>
  /\ resolved = <<>>
  /\ showUrlInput = FALSE
  /\ tryItOut = FALSE
  /\ requests = <<>>

Init ==
  /\ input \in Inputs
  /\ pc = "called"
  /\ result = Pending
  /\ parserCalls = <<>>
  /\ ConvertIdle
  /\ AppIdle

\* typeof input === 'string'
ParseString ==
  /\ pc = "called"
  /\ input.kind # "object"
  /\ parserCalls' = loadDocument(input).calls
  /\ result' = parseOpenApiSpec(input)
  /\ pc' = "settled"
  /\ UNCHANGED <<input, convertVars, appVars>>

\* else branch: spec = input as OpenAPISpec
ParseObject ==
  /\ pc = "called"
  /\ input.kind = "object"
  /\ parserCalls' = <<>>
  /\ result' = parseOpenApiSpec(input)
  /\ pc' = "settled"
  /\ UNCHANGED <<input, convertVars, appVars>>

Next == ParseString \/ ParseObject

Spec == Init /\ [][Next]_vars

(***************************************************************************)
(* State machine: parseSchemaRef on one schema node, one call per step.    *)
(* `stack` holds the arguments of the calls not yet made, `calls` counts   *)
(* the calls made.                                                         *)
(***************************************************************************)
\* the schema a `$ref` of the explored documents points at; it refers to itself
PetSchema ==
  Mk(<< <<"type", Str("object")>>,
        <<"properties", Mk(<< <<"parent", Mk(<< <<"$ref", Str(PetRef)>> >>)>> >>)>> >>)

\* a node that uses every field of OpenAPISchema, three levels deep
RichSchema ==
  Mk(<< <<"type", Str("object")>>,
        <<"description", Str("A pet")>>,
        <<"required", Arr(<<Str("id")>>)>>,
        <<"nullable", Bool(TRUE)>>,
        <<"example", Mk(<< <<"id", Num(1)>> >>)>>,
        <<"properties",
          Mk(<< <<"tags", Mk(<< <<"type", Str("array")>>,
                                <<"items", Mk(<< <<"type", Str("string")>>,
                                                 <<"enum", Arr(<<Str("a"), Str("b")>>)>> >>)>> >>)>>,
                <<"id", Mk(<< <<"type", Str("integer")>>, <<"format", Str("int64")>> >>)>>,
                <<"owner", Mk(<< <<"allOf",
                                   Arr(<<Mk(<< <<"$ref", Str(PetRef)>> >>),
                                         Mk(<< <<"type", Str("object")>>,
                                               <<"properties",
                                                 Mk(<< <<"since", Mk(<< <<"type", Str("string")>>,
                                                                        <<"format", Str("date")>> >>)>> >>)>> >>)>>)>> >>)>>,
                <<"any", Mk(<< <<"type", Str("array")>>, <<"items", Mk(<<>>)>> >>)>> >>)>> >>)

\* schema nodes with a field of another shape than OpenAPISchema declares
MalformedRoots ==
  {Bool(TRUE), Num(7),
   Mk(<< <<"type", Str("object")>>, <<"properties", Num(5)>> >>),
   Mk(<< <<"properties", Arr(<<Mk(<< <<"type", Str("string")>> >>)>>)>> >>),
   Mk(<< <<"type", Str("array")>>, <<"items", Bool(TRUE)>>, <<"oneOf", Null>> >>),
   Mk(<< <<"oneOf", Mk(<< <<"type", Str("string")>> >>)>> >>),
   Mk(<< <<"type", Str("string")>>, <<"anyOf", Str("x")>> >>),
   Mk(<< <<"items", Mk(<< <<"type", Str("string")>> >>)>>, <<"allOf", Num(0)>>,
         <<"anyOf", Arr(<<Mk(<<>>)>>)>> >>),
   Mk(<< <<"type", Str("object")>>,
         <<"properties", Mk(<< <<"name", Mk(<< <<"oneOf", Bool(TRUE)>> >>)>>,
                               <<"tag", Mk(<< <<"type", Str("string")>> >>)>> >>)>> >>)}

ConvertRoots ==
  SchemaNodes(MaxNesting)
  \cup {Undef, PetSchema, RichSchema,
        Mk(<< <<"type", Str("object")>>,
              <<"properties", Mk(<< <<"name", Null>>, <<"tag", Mk(<< <<"$ref", Str(PetRef)>> >>)>> >>)>>,
              <<"items", Null>> >>),
        Mk(<< <<"allOf", Arr(<<Mk(<< <<"$ref", Str(PetRef)>> >>), PetSchema>>)>>,
              <<"anyOf", Arr(<<Mk(<< <<"type", Str("string")>> >>)>>)>> >>)}
  \cup MalformedRoots

\* the evaluation of `schema.f?.map(parseSchemaRef)` on a value without `map`
NotAFunction(f) == [t |-> "throw", field |-> f]
IsThrow(item) == item.t = "throw"

\* schema.f?.map(parseSchemaRef): nothing for undefined or null, one call per
\* member of an array, a TypeError for every other value
mapCalls(schema, f) ==
  IF Nullish(Get(schema, f)) THEN <<>>
  ELSE IF Get(schema, f).t = "array" THEN Get(schema, f).elems
  ELSE <<NotAFunction(f)>>

\* evaluation stops at the first TypeError
UpToThrow(items) ==
  IF \E k \in 1..Len(items) : IsThrow(items[k])
  THEN SubSeq(items, 1, CHOOSE k \in 1..Len(items) :
                           IsThrow(items[k]) /\ \A j \in 1..(k - 1) : ~IsThrow(items[j]))
  ELSE items

recursiveCallsResolving(schema) ==
  IF HasKey(schema, "$ref") THEN <<PetSchema>>
  ELSE UpToThrow(
         (IF Truthy(Get(schema, "items")) THEN <<Get(schema, "items")>> ELSE <<>>)
         \o (IF Truthy(Get(schema, "properties"))
             THEN [i \in 1..Len(Entries(Get(schema, "properties"))) |->
                     Entries(Get(schema, "properties"))[i][2]]
             ELSE <<>>)
         \o mapCalls(schema, "oneOf") \o mapCalls(schema, "anyOf")
         \o mapCalls(schema, "allOf"))

\* what one call on a truthy node evaluates, in the order of the object literal:
\* the calls on schema.items, on the values of schema.properties and on the
\* members of oneOf, anyOf, allOf, up to the first TypeError
recursiveCalls(schema) ==
  UpToThrow(
    (IF Truthy(Get(schema, "items")) THEN <<Get(schema, "items")>> ELSE <<>>)
    \o (IF Truthy(Get(schema, "properties"))
        THEN [i \in 1..Len(Entries(Get(schema, "properties"))) |->
                Entries(Get(schema, "properties"))[i][2]]
        ELSE <<>>)
    \o mapCalls(schema, "oneOf") \o mapCalls(schema, "anyOf")
    \o mapCalls(schema, "allOf"))

\* no call of parseOpenApiSpec is traced
ParserIdle ==
  /\ input = [kind |-> "object", tree |-> Undef]
  /\ pc = "idle"
  /\ result = Pending
  /\ parserCalls = <<>>

ConvertInit ==
  /\ ParserIdle
  /\ AppIdle
  /\ root \in ConvertRoots
  /\ stack = <<root>>
  /\ calls = 0
  /\ converted = Pending

\* the outermost call returns when nothing is left to evaluate
returned(rest) ==
  IF rest = <<>> THEN [status |-> "returned", value |-> parseSchemaRef(root)]
  ELSE converted

\* if (!schema) return { type: 'object' }
ReturnDefault ==
  /\ stack # <<>>
  /\ ~IsThrow(Head(stack))
  /\ ~Truthy(Head(stack))
  /\ calls' = calls + 1
  /\ stack' = Tail(stack)
  /\ converted' = returned(stack')
  /\ UNCHANGED <<root, parserVars, appVars>>

\* return { type: schema.type, ..., allOf: schema.allOf?.map(parseSchemaRef) }
ReturnSchemaRef ==
  /\ stack # <<>>
  /\ ~IsThrow(Head(stack))
  /\ Truthy(Head(stack))
  /\ calls' = calls + 1
  /\ stack' = recursiveCalls(Head(stack)) \o Tail(stack)
  /\ converted' = returned(stack')
  /\ UNCHANGED <<root, parserVars, appVars>>

\* TypeError: schema.oneOf?.map is not a function; it unwinds every pending call
ThrowTypeError ==
  /\ stack # <<>>
  /\ IsThrow(Head(stack))
  /\ stack' = <<>>
  /\ converted' = [status |-> "thrown",
                   reason |-> "schema." \o Head(stack).field \o "?.map is not a function"]
  /\ UNCHANGED <<root, calls, parserVars, appVars>>

ConvertNext == ReturnDefault \/ ReturnSchemaRef \/ ThrowTypeError

ConvertSpec == ConvertInit /\ [][ConvertNext]_vars

(***************************************************************************)
(* The store (useApiStore) and the handlers of Header, WelcomeScreen, App, *)
(* Sidebar, SchemaViewer and TryItOut that call it.  A handler runs up to  *)
(* its first await in one step; the continuation after the awaits is a     *)
(* second step.                                                            *)
(***************************************************************************)
setSpecOnce(state, spec) ==
  IF state.spec = Null THEN [state EXCEPT !.spec = spec, !.error = Null]
  ELSE [state EXCEPT !.error = Null]

\* setSpec: (spec) => set({ spec, error: null })
setSpec(state, spec) == [state EXCEPT !.spec = spec, !.error = Null]

\* setLoading: (isLoading) => set({ isLoading })
setLoading(state, isLoading) == [state EXCEPT !.isLoading = isLoading]

setErrorClearingSpec(state, error) ==
  [state EXCEPT !.error = error, !.isLoading = FALSE, !.spec = Null]

\* setError: (error) => set({ error, isLoading: false })
setError(state, error) == [state EXCEPT !.error = error, !.isLoading = FALSE]

\* selectEndpoint: (endpoint) => set({ selectedEndpoint: endpoint, activeTab: 'docs' })
selectEndpoint(state, endpoint) ==
  [state EXCEPT !.selectedEndpoint = endpoint, !.activeTab = "docs"]

\* selectSchema: (schemaName) => set({ selectedSchema: schemaName })
selectSchema(state, schemaName) == [state EXCEPT !.selectedSchema = schemaName]

\* setSearchQuery: (searchQuery) => set({ searchQuery })
setSearchQuery(state, searchQuery) == [state EXCEPT !.searchQuery = searchQuery]

\* toggleTag: removes the tag when expandedTags includes it, appends it otherwise
\* (no component calls it: the Sidebar keeps its own expandedTags)
toggleTag(state, tag) ==
  LET other(t) == t # tag
  IN [state EXCEPT !.expandedTags =
        IF \E i \in 1..Len(@) : @[i] = tag THEN SelectSeq(@, other) ELSE Append(@, tag)]

\* setActiveTab: (activeTab) => set({ activeTab })  (no component calls it)
setActiveTab(state, activeTab) == [state EXCEPT !.activeTab = activeTab]

\* setLastResponse: (lastResponse) => set({ lastResponse })
setLastResponse(state, lastResponse) == [state EXCEPT !.lastResponse = lastResponse]

\* setRequestLoading: (isRequestLoading) => set({ isRequestLoading })
setRequestLoading(state, isRequestLoading) ==
  [state EXCEPT !.isRequestLoading = isRequestLoading]

\* toggleDarkMode: () => set((state) => ({ isDarkMode: !state.isDarkMode }))
toggleDarkMode(state) == [state EXCEPT !.isDarkMode = ~@]

resetEverything(state) == initialState

\* reset: () => set({ spec: null, isLoading: false, error: null, ... })
reset(state) ==
  [state EXCEPT !.spec = Null, !.isLoading = FALSE, !.error = Null,
                !.selectedEndpoint = Null, !.selectedSchema = Null,
                !.searchQuery = "", !.expandedTags = <<>>, !.lastResponse = Null]

\* the texts a file or a URL of the explored runs delivers
PetsDocument ==
  Doc(OpenApi, PlainInfo,
      Mk(<< <<"/pets", Mk(<< <<"post", TaggedOperation>>, <<"get", PlainOperation>> >>)>> >>),
      Mk(<< <<"schemas", Mk(<< <<"Pet", Mk(<< <<"type", Str("object")>> >>)>> >>)>> >>),
      Absent, <<>>)

OrdersDocument ==
  Doc(Swagger, PlainInfo,
      Mk(<< <<"/orders", Mk(<< <<"get", PlainOperation>> >>)>> >>),
      Mk(<< <<"schemas", Mk(<< <<"Order", Mk(<< <<"type", Str("object")>> >>)>> >>)>> >>),
      Absent, <<>>)

LoadedTexts ==
  {[kind |-> "json", tree |-> PetsDocument],
   [kind |-> "yaml", tree |-> OrdersDocument],
   [kind |-> "invalid", tree |-> Undef],
   [kind |-> "json", tree |-> Doc(<<>>, PlainInfo, Absent, Absent, Absent, <<>>)],
   [kind |-> "json", tree |-> Doc(OpenApi, Absent, Absent, Absent, Absent, <<>>)]}

\* fetch(url) rejects: the TypeError of the browser
FetchRejectedMessage == "Failed to fetch"

\* throw new Error(`Failed to fetch spec: ${response.statusText}`)
FetchFailedMessage(statusText) == "Failed to fetch spec: " \o statusText

StatusTexts == {"Not Found"}

\* the settled promise of fetchAndParseSpec(url), by what the network does
FetchOutcomes ==
  {[status |-> "rejected", reason |-> FetchRejectedMessage]}
  \cup {[status |-> "rejected", reason |-> FetchFailedMessage(st)] : st \in StatusTexts}
  \cup {parseOpenApiSpec(text) : text \in LoadedTexts}

\* the settled promise of file.text() followed by parseOpenApiSpec(text)
FileOutcomes == {parseOpenApiSpec(text) : text \in LoadedTexts}

Outcomes(phase) == IF phase = "fetching" THEN FetchOutcomes ELSE FileOutcomes

InFlight(phase) == phase \in {"reading", "fetching"}

\* setLoading(true) and the call that is awaited first
startLoad(phase) ==
  /\ Len(loads) < MaxLoads
  /\ store' = setLoading(store, TRUE)
  /\ loads' = Append(loads, phase)
  /\ resolved' = Append(resolved, Null)

\* Header: handleFileUpload, up to `await file.text()`
HeaderHandleFileUpload ==
  /\ ~showUrlInput
  /\ startLoad("reading")
  /\ UNCHANGED <<showUrlInput, tryItOut, requests, parserVars, convertVars>>

\* Header: onClick={() => setShowUrlInput(true)}
HeaderShowUrlInput ==
  /\ ~showUrlInput
  /\ showUrlInput' = TRUE
  /\ UNCHANGED <<store, loads, resolved, tryItOut, requests, parserVars, convertVars>>

\* Header: onClick={() => setShowUrlInput(false)}
HeaderCancelUrlInput ==
  /\ showUrlInput
  /\ showUrlInput' = FALSE
  /\ UNCHANGED <<store, loads, resolved, tryItOut, requests, parserVars, convertVars>>

\* Header: handleUrlLoad with a non-blank urlInput, up to `await fetch(url)`
HeaderHandleUrlLoad ==
  /\ showUrlInput
  /\ startLoad("fetching")
  /\ showUrlInput' = FALSE
  /\ UNCHANGED <<tryItOut, requests, parserVars, convertVars>>

\* Header: loadSampleApi, rendered when !spec
HeaderLoadSampleApi ==
  /\ ~showUrlInput
  /\ store.spec = Null
  /\ startLoad("fetching")
  /\ UNCHANGED <<showUrlInput, tryItOut, requests, parserVars, convertVars>>

\* WelcomeScreen: handleFileUpload; the screen is rendered when !spec
WelcomeHandleFileUpload ==
  /\ store.spec = Null
  /\ startLoad("reading")
  /\ UNCHANGED <<showUrlInput, tryItOut, requests, parserVars, convertVars>>

\* WelcomeScreen: prompt() returned a non-empty url: loadSampleApi(url)
WelcomeLoadFromUrl ==
  /\ store.spec = Null
  /\ startLoad("fetching")
  /\ UNCHANGED <<showUrlInput, tryItOut, requests, parserVars, convertVars>>

\* WelcomeScreen: a sample API button, disabled={isLoading}
WelcomeLoadSampleApi ==
  /\ store.spec = Null
  /\ ~store.isLoading
  /\ startLoad("fetching")
  /\ UNCHANGED <<showUrlInput, tryItOut, requests, parserVars, convertVars>>

\* the continuation of a load handler whose awaits fulfilled: setSpec(parsed)
LoadFulfilled ==
  \E i \in 1..Len(loads) : \E outcome \in Outcomes(loads[i]) :
    /\ InFlight(loads[i])
    /\ outcome.status = "fulfilled"
    /\ store' = setSpec(store, outcome.value)
    /\ loads' = [loads EXCEPT ![i] = "fulfilled"]
    /\ resolved' = [resolved EXCEPT ![i] = outcome.value]
    /\ UNCHANGED <<showUrlInput, tryItOut, requests, parserVars, convertVars>>

\* the catch branch of a load handler: setError(err.message)
LoadRejected ==
  \E i \in 1..Len(loads) : \E outcome \in Outcomes(loads[i]) :
    /\ InFlight(loads[i])
    /\ outcome.status = "rejected"
    /\ store' = setError(store, Str(outcome.reason))
    /\ loads' = [loads EXCEPT ![i] = "rejected"]
    /\ UNCHANGED resolved
    /\ UNCHANGED <<showUrlInput, tryItOut, requests, parserVars, convertVars>>

AppResetCancelling ==
  /\ store.spec # Null
  /\ store' = reset(store)
  /\ tryItOut' = FALSE
  /\ loads' = [i \in 1..Len(loads) |-> IF InFlight(loads[i]) THEN "rejected" ELSE loads[i]]
  /\ UNCHANGED <<resolved, showUrlInput, requests, parserVars, convertVars>>

\* App: the "Load Different API" button, rendered when spec is set; without
\* a spec the WelcomeScreen replaces the views, so TryItOut unmounts
AppReset ==
  /\ store.spec # Null
  /\ store' = reset(store)
  /\ tryItOut' = FALSE
  /\ UNCHANGED <<loads, resolved, showUrlInput, requests, parserVars, convertVars>>

\* App: the error toast's button, onClick={() => setError(null)}
AppDismissError ==
  /\ store.error # Null
  /\ store' = setError(store, Null)
  /\ UNCHANGED <<loads, resolved, showUrlInput, tryItOut, requests, parserVars, convertVars>>

\* Header: onClick={toggleDarkMode}
HeaderToggleDarkMode ==
  /\ store' = toggleDarkMode(store)
  /\ UNCHANGED <<loads, resolved, showUrlInput, tryItOut, requests, parserVars, convertVars>>

\* Sidebar, ApiGraph: onClick={() => selectEndpoint(endpoint)}; a mounted
\* TryItOut then runs its effect on [endpoint.id], which ends in setLastResponse(null)
SelectEndpoint ==
  /\ store.spec # Null
  /\ \E i \in 1..Len(store.spec.endpoints) :
       LET endpoint == store.spec.endpoints[i]
       IN store' = IF tryItOut /\ endpoint.id # store.selectedEndpoint.id
                   THEN setLastResponse(selectEndpoint(store, endpoint), Null)
                   ELSE selectEndpoint(store, endpoint)
  /\ UNCHANGED <<loads, resolved, showUrlInput, tryItOut, requests, parserVars, convertVars>>

\* SchemaViewer, ApiGraph: onClick={() => selectSchema(s.name)}; these views
\* replace the one that holds EndpointDetail
SelectSchema ==
  /\ store.spec # Null
  /\ ~tryItOut
  /\ \E i \in 1..Len(store.spec.schemas) :
       store' = selectSchema(store, store.spec.schemas[i].name)
  /\ UNCHANGED <<loads, resolved, showUrlInput, tryItOut, requests, parserVars, convertVars>>

SearchQueries == {"", "pet"}

\* Sidebar: onChange={(e) => setSearchQuery(e.target.value)}
SetSearchQuery ==
  /\ store.spec # Null
  /\ \E q \in SearchQueries : q # store.searchQuery /\ store' = setSearchQuery(store, q)
  /\ UNCHANGED <<loads, resolved, showUrlInput, tryItOut, requests, parserVars, convertVars>>

\* EndpointDetail: the "Try It Out" tab is opened: TryItOut mounts and its
\* effect on [endpoint.id] runs, which ends in setLastResponse(null)
OpenTryItOut ==
  /\ store.spec # Null
  /\ store.selectedEndpoint # Null
  /\ ~tryItOut
  /\ tryItOut' = TRUE
  /\ store' = setLastResponse(store, Null)
  /\ UNCHANGED <<loads, resolved, showUrlInput, requests, parserVars, convertVars>>

\* EndpointDetail: the "Documentation" tab, or App: another view: TryItOut unmounts
CloseTryItOut ==
  /\ tryItOut
  /\ tryItOut' = FALSE
  /\ UNCHANGED <<store, loads, resolved, showUrlInput, requests, parserVars, convertVars>>

\* TryItOut: const [headers, setHeaders] = useState({'Content-Type': 'application/json'}),
\* as the user left it
UserHeaders == {Obj(<< <<"Content-Type", Str("application/json")>> >>)}

\* TryItOut: const [body, setBody] = useState(''), as the user left or edited it
UserBodies == {"", "{}"}

\* the second argument of fetch(url, {...}) in executeRequest; endpoint.method
\* is kept in lower case, toUpperCase() changes only its spelling
fetchInit(method, headers, body) ==
  [method |-> method,
   headers |-> IF method # "get" THEN headers ELSE Undef,
   body |-> IF method # "get" /\ body # "" THEN Str(body) ELSE Undef]

\* TryItOut: executeRequest up to `await fetch(url, ...)`; the Execute button
\* is disabled={isRequestLoading}
ExecuteRequest ==
  /\ tryItOut
  /\ ~store.isRequestLoading
  /\ store' = setLastResponse(setRequestLoading(store, TRUE), Null)
  /\ \E headers \in UserHeaders : \E body \in UserBodies :
       requests' = Append(requests,
                          [endpoint |-> store.selectedEndpoint.id,
                           headers |-> headers,
                           body |-> body,
                           init |-> fetchInit(store.selectedEndpoint.method, headers, body)])
  /\ UNCHANGED <<loads, resolved, showUrlInput, tryItOut, parserVars, convertVars>>

\* the ApiResponse built from the response, and the one built in the catch branch
ApiResponses ==
  {[status |-> 200, statusText |-> "OK", headers |-> <<>>, body |-> "[]",
    duration |-> 12, size |-> 2],
   [status |-> 0, statusText |-> "Network Error", headers |-> <<>>,
    body |-> "Failed to fetch", duration |-> 12, size |-> 0]}

\* TryItOut: the continuation of executeRequest: setLastResponse, then the finally block
RequestSettled ==
  /\ requests # <<>>
  /\ \E response \in ApiResponses :
       store' = setRequestLoading(setLastResponse(store, response), FALSE)
  /\ requests' = Tail(requests)
  /\ UNCHANGED <<loads, resolved, showUrlInput, tryItOut, parserVars, convertVars>>

AppInit ==
  /\ ParserIdle
  /\ ConvertIdle
  /\ AppIdle

AppNext ==
  \/ HeaderHandleFileUpload
  \/ HeaderShowUrlInput
  \/ HeaderCancelUrlInput
  \/ HeaderHandleUrlLoad
  \/ HeaderLoadSampleApi
  \/ WelcomeHandleFileUpload
  \/ WelcomeLoadFromUrl
  \/ WelcomeLoadSampleApi
  \/ LoadFulfilled
  \/ LoadRejected
  \/ AppReset
  \/ AppDismissError
  \/ HeaderToggleDarkMode
  \/ SelectEndpoint
  \/ SelectSchema
  \/ SetSearchQuery
  \/ OpenTryItOut
  \/ CloseTryItOut
  \/ ExecuteRequest
  \/ RequestSettled

AppSpec == AppInit /\ [][AppNext]_vars

(***************************************************************************)
(* Vocabulary of the properties: the parsed document behind the current    *)
(* input and the source node behind each record of the result              *)
(***************************************************************************)
Settled == pc = "settled"
Fulfilled == Settled /\ result.status = "fulfilled"
Rejected == Settled /\ result.status = "rejected"

IsText == input.kind # "object"
JsonValid == input.kind = "json"
YamlValid == input.kind \in {"json", "yaml"}
HasDocument == input.kind \in {"object", "json", "yaml"}

\* the document tree handed to the normalizer
Document == JSValue(input.tree)

HttpMethods == {"get", "post", "put", "patch", "delete", "options", "head"}

DocPaths == Get(Document, "paths")
PathKeys == {Entries(DocPaths)[i][1] : i \in 1..Len(Entries(DocPaths))}
HoldsOperation(path, method) == Get(Get(DocPaths, path), method).t = "object"
SourceOperation(e) == Get(Get(DocPaths, e.path), e.method)
SourceParameters(e) ==
  LET pathLevel == Get(Get(DocPaths, e.path), "parameters")
      opLevel == Get(SourceOperation(e), "parameters")
  IN (IF pathLevel.t = "array" THEN pathLevel.elems ELSE <<>>)
     \o (IF opLevel.t = "array" THEN opLevel.elems ELSE <<>>)

Endpoints == result.value.endpoints
EndpointIndices == 1..Len(Endpoints)

(***************************************************************************)
(* C1: a fulfilled parse has exactly one Endpoint for every (path, method) *)
(* pair whose method is one of the seven HTTP methods and whose path item  *)
(* holds an operation under that key, no Endpoint for any other key of a   *)
(* path item, the id "<method>-<path>" on each, and pairwise distinct ids. *)
(***************************************************************************)
C1_OneEndpointPerOperation ==
  Fulfilled =>
    /\ \A p \in PathKeys : \A m \in HttpMethods :
         HoldsOperation(p, m) =>
           Cardinality({i \in EndpointIndices :
                          Endpoints[i].path = p /\ Endpoints[i].method = m}) = 1
    /\ \A i \in EndpointIndices :
         /\ Endpoints[i].path \in PathKeys
         /\ Endpoints[i].method \in HttpMethods
         /\ HoldsOperation(Endpoints[i].path, Endpoints[i].method)
         /\ Endpoints[i].id = Endpoints[i].method \o "-" \o Endpoints[i].path
    /\ \A i, j \in EndpointIndices : i # j => Endpoints[i].id # Endpoints[j].id

C1_Witness ==
  /\ Fulfilled
  /\ Len(Endpoints) >= 2
  /\ \E p \in PathKeys :
       /\ HasKey(Get(DocPaths, p), "x-internal")
       /\ HasKey(Get(DocPaths, p), "parameters")
       /\ \E m \in HttpMethods : HoldsOperation(p, m)

(***************************************************************************)
(* C2: every Parameter of the result whose location is `path` has          *)
(* required = true, whether the source leaves `required` out, sets it to   *)
(* true or sets it to false, at path-item level and at operation level.    *)
(***************************************************************************)
C2_PathParameterRequired ==
  Fulfilled =>
    \A i \in EndpointIndices : \A k \in 1..Len(Endpoints[i].parameters) :
      Endpoints[i].parameters[k].in = Str("path") =>
        Endpoints[i].parameters[k].required = Bool(TRUE)

C2_Witness ==
  /\ Fulfilled
  /\ \E i \in EndpointIndices :
       LET src == SourceParameters(Endpoints[i])
           pathLevel == Elems(Get(Get(DocPaths, Endpoints[i].path), "parameters"))
       IN /\ Len(src) = 2 /\ Len(pathLevel) = 1
          /\ \A k \in 1..2 :
               /\ Get(src[k], "in") = Str("path")
               /\ Get(src[k], "required") = Bool(FALSE)
               /\ Endpoints[i].parameters[k].required = Bool(TRUE)

(***************************************************************************)
(* C3: an operation without a `tags` field yields an Endpoint whose tags   *)
(* are exactly ["default"].                                                *)
(***************************************************************************)
C3_DefaultTag ==
  Fulfilled =>
    \A i \in EndpointIndices :
      ~HasKey(SourceOperation(Endpoints[i]), "tags") =>
        Endpoints[i].tags = Arr(<<Str("default")>>)

C3_Witness ==
  /\ Fulfilled
  /\ \E i \in EndpointIndices :
       /\ ~HasKey(SourceOperation(Endpoints[i]), "tags")
       /\ Endpoints[i].tags = Arr(<<Str("default")>>)

(***************************************************************************)
(* C4: every Endpoint of a fulfilled parse has a non-empty tags list, also *)
(* when the source operation declares `tags: []`.                          *)
(***************************************************************************)
C4_TagsNonEmpty ==
  Fulfilled =>
    \A i \in EndpointIndices :
      Endpoints[i].tags.t = "array" /\ Len(Endpoints[i].tags.elems) > 0

\* the media-type entries of a source `content` mapping
MediaEntries(holder) ==
  IF Get(holder, "content").t = "object" THEN Get(holder, "content").entries ELSE <<>>

\* <<source schema node, converted SchemaRef>> at every place of the result
\* where a schema is converted
ParameterSchemaPairs ==
  UNION {{<<Get(SourceParameters(Endpoints[i])[k], "schema"),
            Endpoints[i].parameters[k].schema>> :
            k \in 1..Len(Endpoints[i].parameters)} : i \in EndpointIndices}

RequestBodySchemaPairs ==
  UNION {LET body == Get(SourceOperation(Endpoints[i]), "requestBody")
         IN {<<Get(MediaEntries(body)[k][2], "schema"),
               Endpoints[i].requestBody.content.entries[k][2].schema>> :
               k \in 1..Len(MediaEntries(body))} : i \in EndpointIndices}

ResponseSchemaPairs ==
  UNION {LET rs == Get(SourceOperation(Endpoints[i]), "responses")
         IN UNION {{<<Get(MediaEntries(Get(rs, Endpoints[i].responses[r].statusCode.str))[k][2],
                          "schema"),
                      Endpoints[i].responses[r].content.entries[k][2].schema>> :
                      k \in 1..Len(MediaEntries(Get(rs, Endpoints[i].responses[r].statusCode.str)))} :
                     r \in 1..Len(Endpoints[i].responses)} : i \in EndpointIndices}

ComponentSchemaPairs ==
  UNION {LET src == Get(Get(Get(Document, "components"), "schemas"),
                        result.value.schemas[i].name.str)
             out == result.value.schemas[i]
         IN (IF out.items # Undef THEN {<<Get(src, "items"), out.items>>} ELSE {})
            \cup (IF out.properties # Undef
                  THEN {<<Get(Get(src, "properties"), out.properties.entries[k][1]),
                          out.properties.entries[k][2]>> : k \in 1..Len(out.properties.entries)}
                  ELSE {}) : i \in 1..Len(result.value.schemas)}

SchemaPairs ==
  ParameterSchemaPairs \cup RequestBodySchemaPairs \cup ResponseSchemaPairs
    \cup ComponentSchemaPairs

SiblingFields ==
  {"type", "format", "description", "enum", "items", "properties", "required",
   "example", "nullable", "oneOf", "anyOf", "allOf"}

\* a node with `$ref` converts to the bare reference, here and in every nested node
RECURSIVE RefOpaque(_, _)
RefOpaque(src, out) ==
  IF src.t # "object" THEN TRUE
  ELSE /\ HasKey(src, "$ref") =>
            /\ out.ref = Get(src, "$ref")
            /\ \A f \in SiblingFields : out[f] = Undef
       /\ out.items # Undef => RefOpaque(Get(src, "items"), out.items)
       /\ out.properties # Undef =>
            \A k \in 1..Len(out.properties.entries) :
              RefOpaque(Get(Get(src, "properties"), out.properties.entries[k][1]),
                        out.properties.entries[k][2])
       /\ \A f \in {"oneOf", "anyOf", "allOf"} :
            out[f] # Undef =>
              \A k \in 1..Len(out[f].elems) : RefOpaque(Get(src, f).elems[k], out[f].elems[k])

(***************************************************************************)
(* C5: every schema node that contains a `$ref` converts to a SchemaRef    *)
(* whose `$ref` is the source string and whose other fields (type,         *)
(* properties, items, ...) are not populated, sibling fields or not.       *)
(***************************************************************************)
C5_RefOpaque ==
  Fulfilled => \A pr \in SchemaPairs : RefOpaque(pr[1], pr[2])

(***************************************************************************)
(* C6: every parsed document without an `openapi` and without a `swagger`  *)
(* root key is rejected with the validation error, whatever the parse      *)
(* result is (a mapping, a scalar, null, an empty document).               *)
(***************************************************************************)
C6_DialectGate ==
  (Settled /\ HasDocument /\ ~HasKey(Document, "openapi") /\ ~HasKey(Document, "swagger"))
    => result = [status |-> "rejected", reason |-> ValidationErrorMessage]

(***************************************************************************)
(* C7: for string input the JSON parse is tried first and the YAML parse   *)
(* only when the JSON parse fails; when both fail the call is rejected     *)
(* with "Failed to parse spec: Invalid JSON or YAML"; text that is YAML    *)
(* but not JSON is normalized from the YAML parse result.                  *)
(***************************************************************************)
C7_JsonThenYaml ==
  (Settled /\ IsText) =>
    /\ Len(parserCalls) >= 1 /\ parserCalls[1] = "JSON.parse"
    /\ (JSONParse(input).ok => parserCalls = <<"JSON.parse">>)
    /\ (~JSONParse(input).ok => parserCalls = <<"JSON.parse", "yaml.load">>)
    /\ (~JSONParse(input).ok /\ ~YAMLLoad(input).ok) =>
         result = [status |-> "rejected", reason |-> ParseErrorMessage]
    /\ (~JSONParse(input).ok /\ YAMLLoad(input).ok) =>
         /\ result = normalize(YAMLLoad(input).value)
         /\ result.status = "rejected" => result.reason # ParseErrorMessage

C7_Witness ==
  /\ Fulfilled /\ IsText
  /\ ~JSONParse(input).ok /\ YAMLLoad(input).ok
  /\ parserCalls = <<"JSON.parse", "yaml.load">>
  /\ Len(Endpoints) > 0

\* the pairs whose source entry has no `schema` field
SchemaLess(pairs) == {pr \in pairs : pr[1] = Undef}

(***************************************************************************)
(* C8: a parameter, a request-body media type or a response media type     *)
(* whose source entry has no `schema` field gets the SchemaRef             *)
(* { type: "object" } and nothing else.                                    *)
(***************************************************************************)
C8_EmptySchemaFallback ==
  Fulfilled =>
    \A pr \in SchemaLess(ParameterSchemaPairs \cup RequestBodySchemaPairs
                           \cup ResponseSchemaPairs) :
      pr[2] = [type |-> Str("object")]

C8_Witness ==
  /\ Fulfilled
  /\ SchemaLess(ParameterSchemaPairs) # {}
  /\ SchemaLess(RequestBodySchemaPairs) # {}
  /\ SchemaLess(ResponseSchemaPairs) # {}

\* the tag names the endpoints of the result use
UsedTagNames ==
  UNION {{Endpoints[i].tags.elems[k] : k \in 1..Len(Endpoints[i].tags.elems)} :
           i \in EndpointIndices}

(***************************************************************************)
(* C10: ApiSpec.tags is the document's top-level `tags` list when that     *)
(* list is present and non-empty, and is synthesized from the tag names    *)
(* used by the endpoints when the list is absent or empty.                 *)
(***************************************************************************)
C10_TagResolution ==
  Fulfilled =>
    LET declared == Get(Document, "tags")
        tags == result.value.tags
    IN IF declared.t = "array" /\ Len(declared.elems) > 0
       THEN tags = declared
       ELSE /\ tags.t = "array"
            /\ {Get(tags.elems[k], "name") : k \in 1..Len(tags.elems)} = UsedTagNames

(***************************************************************************)
(* C13: normalization aborts only on unparsable text or on a missing       *)
(* dialect key: every parsed document that carries `openapi` or `swagger`  *)
(* is fulfilled with an ApiSpec, whichever other field is absent (`info`,  *)
(* `paths`, `components`, `tags`, an operation's `responses`, a            *)
(* parameter's `schema`).                                                  *)
(***************************************************************************)
C13_AbortsOnlyOnParseOrDialect ==
  (Settled /\ HasDocument /\ ~Nullish(Document) /\ ~dialectMissing(Document))
    => Fulfilled

\* the fields parseParameter copies from the source entry
CopiedFrom(src, out) ==
  /\ out.name = Get(src, "name")
  /\ out.in = Get(src, "in")
  /\ out.description = Get(src, "description")
  /\ out.example = Get(src, "example")

PathLevelParameters(e) == Elems(Get(Get(DocPaths, e.path), "parameters"))
OperationLevelParameters(e) == Elems(Get(SourceOperation(e), "parameters"))

(***************************************************************************)
(* C17: the parameters of an Endpoint are the path-item-level list         *)
(* followed by the operation-level list, each entry converted in place and *)
(* in order; the length is the sum of the two lengths, and an operation    *)
(* parameter with the name and location of a path-level one does not       *)
(* replace it.                                                             *)
(***************************************************************************)
C17_ParametersConcatenated ==
  Fulfilled =>
    \A i \in EndpointIndices :
      LET pathLevel == PathLevelParameters(Endpoints[i])
          opLevel == OperationLevelParameters(Endpoints[i])
          out == Endpoints[i].parameters
      IN /\ Len(out) = Len(pathLevel) + Len(opLevel)
         /\ \A k \in 1..Len(pathLevel) : CopiedFrom(pathLevel[k], out[k])
         /\ \A k \in 1..Len(opLevel) : CopiedFrom(opLevel[k], out[Len(pathLevel) + k])

C17_Witness ==
  /\ Fulfilled
  /\ \E i \in EndpointIndices :
       LET pathLevel == PathLevelParameters(Endpoints[i])
           opLevel == OperationLevelParameters(Endpoints[i])
           out == Endpoints[i].parameters
       IN /\ Len(pathLevel) = 1 /\ Len(opLevel) = 1 /\ Len(out) = 2
          /\ Get(pathLevel[1], "name") = Get(opLevel[1], "name")
          /\ Get(pathLevel[1], "in") = Get(opLevel[1], "in")
          /\ out[1].name = out[2].name /\ out[1].in = out[2].in

(***************************************************************************)
(* C19: for an operation whose `security` is a list of k requirement       *)
(* entries, Endpoint.security is a list of k scheme names, the i-th being  *)
(* the scheme-name key of the i-th entry (no scope list is kept); every    *)
(* element is a scheme name, never an absent value; an operation without   *)
(* `security` has no security list.                                        *)
(***************************************************************************)
C19_SecuritySchemeNames ==
  Fulfilled =>
    \A i \in EndpointIndices :
      LET declared == Get(SourceOperation(Endpoints[i]), "security")
          out == Endpoints[i].security
      IN IF declared.t = "array"
         THEN /\ out.t = "array"
              /\ Len(out.elems) = Len(declared.elems)
              /\ \A k \in 1..Len(out.elems) :
                   /\ out.elems[k].t = "string"
                   /\ HasKey(declared.elems[k], out.elems[k].str)
         ELSE out = Undef

\* the mappings as the text of the document declares them, before a parser
\* has built objects from them
DeclaredOperation(e) == Get(Get(Get(input.tree, "paths"), e.path), e.method)
DeclaredResponses(e) == Entries(Get(DeclaredOperation(e), "responses"))
DeclaredSchemas == Entries(Get(Get(input.tree, "components"), "schemas"))

(***************************************************************************)
(* C15: Endpoint.responses holds exactly one Response per status-code key  *)
(* of the operation's `responses` mapping, with statusCode equal to the    *)
(* key as a string ("default" included), in the order in which the source  *)
(* document declares the keys; an operation without `responses` gets the   *)
(* empty list.                                                             *)
(***************************************************************************)
C15_ResponsesInDeclaredOrder ==
  Fulfilled =>
    \A i \in EndpointIndices :
      LET declared == DeclaredResponses(Endpoints[i])
          out == Endpoints[i].responses
      IN /\ Len(out) = Len(declared)
         /\ \A k \in 1..Len(out) : out[k].statusCode = Str(declared[k][1])

(***************************************************************************)
(* C14: ApiSpec.schemas holds exactly one Schema per key of the            *)
(* component-schema mapping, in the mapping's order, named by its key,     *)
(* with pairwise distinct names; without the mapping (or without           *)
(* `components`) the list is empty.                                        *)
(***************************************************************************)
C14_SchemasInDeclaredOrder ==
  Fulfilled =>
    LET out == result.value.schemas
    IN /\ Len(out) = Len(DeclaredSchemas)
       /\ \A k \in 1..Len(out) : out[k].name = Str(DeclaredSchemas[k][1])
       /\ \A j, k \in 1..Len(out) : j # k => out[j].name # out[k].name

\* type?: 'object' | 'array' | 'string' | 'number' | 'integer' | 'boolean' | 'null'
SchemaTypes == {"object", "array", "string", "number", "integer", "boolean", "null"}

(***************************************************************************)
(* C18: every Schema of ApiSpec.schemas has a type in {object, array,      *)
(* string, number, integer, boolean, null}: a component schema without     *)
(* `type` gets "object", and no other value of the source `type` reaches   *)
(* the model.                                                              *)
(***************************************************************************)
C18_SchemaTypeEnumerated ==
  Fulfilled =>
    \A k \in 1..Len(result.value.schemas) :
      LET out == result.value.schemas[k]
          src == Get(Get(Get(Document, "components"), "schemas"), out.name.str)
      IN /\ out.type.t = "string" /\ out.type.str \in SchemaTypes
         /\ ~HasKey(src, "type") => out.type = Str("object")

\* a pending call, as opposed to a pending TypeError
IsCall(item) == ~IsThrow(item)

\* the places of a schema node that hold a schema
ChildNodes(node) ==
  IF node.t # "object" THEN {}
  ELSE (IF HasKey(node, "items") THEN {Get(node, "items")} ELSE {})
       \cup {Entries(Get(node, "properties"))[i][2] :
               i \in 1..Len(Entries(Get(node, "properties")))}
       \cup UNION {{Elems(Get(node, f))[i] : i \in 1..Len(Elems(Get(node, f)))} :
                     f \in {"oneOf", "anyOf", "allOf"}}

\* the schema nodes of a finite tree, and their number counted by position
RECURSIVE SubNodes(_)
SubNodes(node) == {node} \cup UNION {SubNodes(c) : c \in ChildNodes(node)}

RECURSIVE NodeCount(_)
NodeCount(node) ==
  IF node.t # "object" THEN 1
  ELSE LET Sum(q) == LET RECURSIVE S(_)
                         S(k) == IF k = 0 THEN 0 ELSE NodeCount(q[k]) + S(k - 1)
                     IN S(Len(q))
           props == Entries(Get(node, "properties"))
       IN 1 + (IF HasKey(node, "items") THEN NodeCount(Get(node, "items")) ELSE 0)
            + Sum([i \in 1..Len(props) |-> props[i][2]])
            + Sum(Elems(Get(node, "oneOf"))) + Sum(Elems(Get(node, "anyOf")))
            + Sum(Elems(Get(node, "allOf")))

(***************************************************************************)
(* C20: parseSchemaRef terminates on every finite schema node: the calls   *)
(* made plus the calls pending never exceed the number of schema nodes of  *)
(* the tree, and every call is on a node reached through `items`, a        *)
(* `properties` value or a oneOf/anyOf/allOf member, never on the target   *)
(* of a `$ref`.                                                            *)
(***************************************************************************)
C20_CallsBoundedByNodes ==
  /\ calls + Len(SelectSeq(stack, IsCall)) <= NodeCount(root)
  /\ \A k \in 1..Len(stack) : IsCall(stack[k]) => stack[k] \in SubNodes(root)

C20_Witness ==
  /\ stack = <<>>
  /\ calls = NodeCount(root)
  /\ calls >= 4
  /\ \E n \in SubNodes(root) : n # root /\ HasKey(n, "$ref") /\ ChildNodes(n) # {}

\* the messages a load in the given phase can fail with
FailureMessages(phase) ==
  {Str(outcome.reason) : outcome \in {o \in Outcomes(phase) : o.status = "rejected"}}

(***************************************************************************)
(* C11: a load that fails (fetch rejected, non-success HTTP status,        *)
(* unparsable text, missing dialect key) leaves the store's `spec` as it   *)
(* is: neither the step that starts a load nor the step that ends it in    *)
(* failure changes `spec`, so a previously loaded ApiSpec stays installed  *)
(* and no partial model appears; the failing step puts the failure message *)
(* in `error`.                                                             *)
(***************************************************************************)
C11_FailedLoadKeepsSpec ==
  [][/\ Len(loads') > Len(loads) => store'.spec = store.spec
     /\ \A i \in 1..Len(loads) :
          (InFlight(loads[i]) /\ loads'[i] = "rejected") =>
            /\ store'.spec = store.spec
            /\ store'.error \in FailureMessages(loads[i])]_vars

C11_Witness ==
  /\ store.spec # Null
  /\ store.error \in FailureMessages("fetching")
  /\ \E i, j \in 1..Len(loads) : i < j /\ loads[i] = "fulfilled" /\ loads[j] = "rejected"

(***************************************************************************)
(* C16: the store's reset sets spec, selectedEndpoint, selectedSchema,     *)
(* lastResponse and error to null, searchQuery to "", expandedTags to []   *)
(* and isLoading to false, and leaves isDarkMode, activeTab and            *)
(* isRequestLoading as they are.                                           *)
(***************************************************************************)
C16_ResetClearsSession ==
  [][AppReset =>
       /\ store'.spec = Null
       /\ store'.selectedEndpoint = Null
       /\ store'.selectedSchema = Null
       /\ store'.lastResponse = Null
       /\ store'.error = Null
       /\ store'.searchQuery = ""
       /\ store'.expandedTags = <<>>
       /\ store'.isLoading = FALSE
       /\ store'.isDarkMode = store.isDarkMode
       /\ store'.activeTab = store.activeTab
       /\ store'.isRequestLoading = store.isRequestLoading]_vars

C16_Witness ==
  /\ store.spec = Null /\ store.selectedEndpoint = Null /\ store.lastResponse = Null
  /\ \E i \in 1..Len(loads) : loads[i] = "fulfilled"
  /\ store.isDarkMode = FALSE
  /\ store.isRequestLoading = TRUE

\* the loads that have started and not yet settled
LoadsInFlight == {i \in 1..Len(loads) : InFlight(loads[i])}

(***************************************************************************)
(* C12: at most one load is in flight at any time: while isLoading is true *)
(* no second load can be started from the Header or the WelcomeScreen.     *)
(***************************************************************************)
C12_OneLoadInFlight == Cardinality(LoadsInFlight) <= 1

\* the tags of the endpoints of the result, endpoint by endpoint, each list in order
ScannedTags == Flatten([i \in EndpointIndices |-> Elems(Endpoints[i].tags)])

\* the position at which a tag name is first met in the scan
FirstSeen(name) == CHOOSE k \in 1..Len(ScannedTags) :
                     /\ ScannedTags[k] = name
                     /\ \A j \in 1..(k - 1) : ScannedTags[j] # name

\* tags: spec.tags || extractTags(endpoints) takes the right-hand side
TagsSynthesized == Fulfilled /\ ~Truthy(Get(Document, "tags"))

(***************************************************************************)
(* C23: when the tags are synthesized, ApiSpec.tags holds each tag name    *)
(* used by an Endpoint exactly once and no other name, in the order of     *)
(* first occurrence when the endpoints are scanned in model order and each *)
(* endpoint's tags in list order; a synthesized Tag has a name and no      *)
(* description.                                                            *)
(***************************************************************************)
C23_SynthesizedTagsFirstSeen ==
  TagsSynthesized =>
    LET tags == result.value.tags.elems
    IN /\ \A k \in 1..Len(tags) : tags[k] = Obj(<< <<"name", Get(tags[k], "name")>> >>)
       /\ {Get(tags[k], "name") : k \in 1..Len(tags)} = UsedTagNames
       /\ \A j, k \in 1..Len(tags) :
            j < k => FirstSeen(Get(tags[j], "name")) < FirstSeen(Get(tags[k], "name"))

C23_Witness ==
  /\ TagsSynthesized
  /\ Len(result.value.tags.elems) = 3
  /\ Len(ScannedTags) > 3
  /\ Get(result.value.tags.elems[1], "name") = Str("store")
  /\ Get(result.value.tags.elems[2], "name") = Str("pets")
  /\ Get(result.value.tags.elems[3], "name") = Str("default")

\* the document with its `swagger` root key replaced by an `openapi` root key
AsOpenApi(doc) ==
  Obj([i \in 1..Len(doc.entries) |->
         IF doc.entries[i][1] = "swagger"
         THEN <<"openapi", Str("3.0.0")>>
         ELSE doc.entries[i]])

SwaggerOnly == HasKey(Document, "swagger") /\ ~HasKey(Document, "openapi")

C21_ConversionNeverFails ==
  (stack = <<>> /\ calls > 0) => converted.status = "returned"


\* the fields of a SchemaRef
SchemaRefFields ==
  {"type", "ref", "format", "description", "enum", "items", "properties",
   "required", "example", "nullable", "oneOf", "anyOf", "allOf"}

\* a source node as OpenAPISchema declares it: a mapping whose `items` is a
\* node, whose `properties` is a mapping of nodes and whose oneOf, anyOf and
\* allOf are lists of nodes, each of them optional
RECURSIVE WellShaped(_)
WellShaped(node) ==
  /\ node.t = "object"
  /\ HasKey(node, "items") => WellShaped(Get(node, "items"))
  /\ HasKey(node, "properties") =>
       /\ Get(node, "properties").t = "object"
       /\ \A i \in 1..Len(Entries(Get(node, "properties"))) :
            WellShaped(Entries(Get(node, "properties"))[i][2])
  /\ \A f \in {"oneOf", "anyOf", "allOf"} :
       HasKey(node, f) =>
         /\ Get(node, f).t = "array"
         /\ \A i \in 1..Len(Get(node, f).elems) : WellShaped(Get(node, f).elems[i])

\* the SchemaRef `out` has the structure of the source node `src`, at every depth
RECURSIVE Preserves(_, _)
Preserves(src, out) ==
  /\ DOMAIN out = SchemaRefFields
  /\ out.type = Get(src, "type")
  /\ out.format = Get(src, "format")
  /\ out.description = Get(src, "description")
  /\ out.enum = Get(src, "enum")
  /\ out.required = Get(src, "required")
  /\ out.example = Get(src, "example")
  /\ out.nullable = Get(src, "nullable")
  /\ IF HasKey(src, "items")
     THEN out.items # Undef /\ Preserves(Get(src, "items"), out.items)
     ELSE out.items = Undef
  /\ IF HasKey(src, "properties")
     THEN LET source == Entries(Get(src, "properties"))
          IN /\ out.properties.t = "object"
             /\ Len(out.properties.entries) = Len(source)
             /\ \A i \in 1..Len(source) :
                  /\ out.properties.entries[i][1] = source[i][1]
                  /\ Preserves(source[i][2], out.properties.entries[i][2])
     ELSE out.properties = Undef
  /\ \A f \in {"oneOf", "anyOf", "allOf"} :
       IF HasKey(src, f)
       THEN /\ out[f].t = "array"
            /\ Len(out[f].elems) = Len(Get(src, f).elems)
            /\ \A i \in 1..Len(Get(src, f).elems) :
                 Preserves(Get(src, f).elems[i], out[f].elems[i])
       ELSE out[f] = Undef

\* the longest chain of nested schema nodes below a node
RECURSIVE Depth(_)
Depth(node) ==
  IF ChildNodes(node) = {} THEN 0
  ELSE 1 + (CHOOSE d \in {Depth(c) : c \in ChildNodes(node)} :
              \A c \in ChildNodes(node) : Depth(c) <= d)

(***************************************************************************)
(* C22: parseSchemaRef preserves structure at every nesting depth: the     *)
(* output `properties` has the keys of the source node in the order of the *)
(* source node, each mapped to the conversion of its value; oneOf, anyOf   *)
(* and allOf keep their length and member order; `items` is present        *)
(* exactly when the source has it; type, format, description, enum,        *)
(* required, example and nullable equal those of the source.               *)
(***************************************************************************)
C22_StructurePreserved ==
  (converted.status = "returned" /\ WellShaped(root)) =>
    Preserves(root, converted.value)

C22_Witness ==
  /\ converted.status = "returned"
  /\ WellShaped(root)
  /\ Depth(root) >= 3
  /\ Len(Entries(Get(root, "properties"))) >= 3
  /\ converted.value.properties.entries[1][1] = "tags"
  /\ converted.value.properties.entries[2][1] = "id"
  /\ converted.value.properties.entries[1][2].items.enum = Arr(<<Str("a"), Str("b")>>)
  /\ Len(converted.value.properties.entries[3][2].allOf.elems) = 2


(***************************************************************************)
(* C25: isLoading is true only while a load is in flight: once every load  *)
(* that was started has completed, by setSpec on success or by setError on *)
(* failure, isLoading is false.                                            *)
(***************************************************************************)
C25_LoadingOnlyInFlight == store.isLoading => LoadsInFlight # {}


(***************************************************************************)
(* C26: a selected endpoint is one of the endpoints of the installed spec  *)
(* and a selected schema names one of its schemas: after a later load has  *)
(* replaced the spec, no selection made in the previous spec remains.      *)
(***************************************************************************)
C26_SelectionInSpec ==
  /\ store.selectedEndpoint # Null =>
       /\ store.spec # Null
       /\ \E i \in 1..Len(store.spec.endpoints) :
            store.spec.endpoints[i] = store.selectedEndpoint
  /\ store.selectedSchema # Null =>
       /\ store.spec # Null
       /\ \E i \in 1..Len(store.spec.schemas) :
            store.spec.schemas[i].name = store.selectedSchema


(***************************************************************************)
(* C24: the Try It Out executor attaches the user's headers whatever the   *)
(* HTTP method of the endpoint, and attaches the body exactly when the     *)
(* method is not GET and the body is not empty: a GET carries no body.     *)
(***************************************************************************)
C24_HeadersAlwaysBodyUnlessGet ==
  \A k \in 1..Len(requests) :
    LET request == requests[k]
    IN /\ request.init.headers = request.headers
       /\ request.init.body = IF request.init.method # "get" /\ request.body # ""
                              THEN Str(request.body)
                              ELSE Undef

\* the request that is answered in a step, if the step is the end of executeRequest
Answered == IF Len(requests') < Len(requests) THEN {Head(requests)} ELSE {}

(***************************************************************************)
(* C27: lastResponse is only ever set to the response to a request built   *)
(* from the selected endpoint: a request that was started for one endpoint *)
(* and is answered after the selection has moved to another endpoint does  *)
(* not set lastResponse.                                                   *)
(***************************************************************************)
C27_ResponseOfSelectedEndpoint ==
  [][\A request \in Answered :
       (store.selectedEndpoint = Null \/ store.selectedEndpoint.id # request.endpoint)
         => store'.lastResponse = store.lastResponse]_vars


\* the loads whose promise fulfils in a step
Completing == {i \in 1..Len(loads) : InFlight(loads[i]) /\ loads'[i] = "fulfilled"}

(***************************************************************************)
(* C28: when loads overlap and succeed, the spec installed is the result   *)
(* of the load that completed last, whatever the order in which they were  *)
(* started: each successful completion replaces spec wholesale with its    *)
(* own result and sets error to null.                                      *)
(***************************************************************************)
C28_LastCompletionWins ==
  [][\A i \in Completing :
       /\ store'.spec = resolved'[i]
       /\ store'.error = Null]_vars

C28_Witness ==
  /\ loads = <<"fulfilled", "fulfilled">>
  /\ resolved[1] # resolved[2]
  /\ store.spec = resolved[1]
  /\ store.error = Null


\* the loads whose promise rejects in a step
Failing == {i \in 1..Len(loads) : InFlight(loads[i]) /\ loads'[i] = "rejected"}

(***************************************************************************)
(* C29: reset does not cancel a load in flight: the step that clears the   *)
(* spec leaves every load as it is, and a load that completes while no     *)
(* spec is installed still takes effect, installing its ApiSpec on success *)
(* (spec becomes non-null again without a new load) or setting error on    *)
(* failure.                                                                *)
(***************************************************************************)
C29_ResetKeepsLoadsInFlight ==
  [][/\ (store.spec # Null /\ store'.spec = Null) => loads' = loads
     /\ store.spec = Null =>
          /\ \A i \in Completing : store'.spec # Null /\ store'.spec = resolved'[i]
          /\ \A i \in Failing : store'.error # Null /\ store'.spec = Null]_vars

C29_Witness ==
  /\ Len(loads) = 2
  /\ \A i \in 1..2 : loads[i] = "fulfilled"
  /\ ~store.isLoading
  /\ store.error = Null
  /\ store.spec = resolved[2]

====
